---- MODULE Spec2Model ----
(***************************************************************************)
(* splik (src/src/main.rs): one run of the program over a file system.     *)
(*                                                                         *)
(* The state is main's position, its locals (arguments, root, languages),  *)
(* the pending directory iterators of analyze_directory's recursion, what  *)
(* has been printed, and the panic message when the process has aborted.   *)
(* fsOrder is the order in which the file system lists a directory (the   *)
(* order of DirTable, or its reverse: read_dir promises none), and         *)
(* overflow_checks tells whether the binary was built with integer         *)
(* overflow checks (a debug build panics where a release build wraps).     *)
(* Two history variables record what the run did: located is what          *)
(* get_root_dir returned, if it was called, and recorded is the sequence   *)
(* of (language, path) that add_file counted, in the order of the calls.   *)
(*                                                                         *)
(* Representation.                                                         *)
(*   - A file name is the sequence of its pieces between dots:             *)
(*     "a.py" is <<"a","py">>, ".gitignore" is <<"","gitignore">>,         *)
(*     ".x.rs" is <<"","x","rs">>, "src" is <<"src">>, "." is <<"","">>.   *)
(*   - A path is [abs, comps]: whether it starts at "/", and its           *)
(*     components (file names).  "" is [abs |-> FALSE, comps |-> <<>>].    *)
(*   - Option<T> is a sequence of length at most one.                      *)
(*   - u32, u64 and usize quantities of bytes and lines are numbers of     *)
(*     four 16-bit limbs, least significant first, so that 2^32 and the    *)
(*     32-bit truncation are exact (TLC's integers end at 2^31 - 1).       *)
(***************************************************************************)
EXTENDS Integers, Sequences, FiniteSets, TLC

VARIABLES pc, arguments, fsOrder, overflow_checks, located, root, stack, languages, recorded, report,
          stdout, panic

vars == <<pc, arguments, fsOrder, overflow_checks, located, root, stack, languages, recorded, report,
          stdout, panic>>

None == <<>>
Some(x) == <<x>>

(***************************************************************************)
(* Numbers of four 16-bit limbs                                            *)
(***************************************************************************)
Base == 2^16

NumZero == <<0, 0, 0, 0>>

\* The number of a TLC integer (below 2^31).
Num(i) == <<i % Base, i \div Base, 0, 0>>

NumTwoTo31 == <<0, 32768, 0, 0>>
NumTwoTo32 == <<0, 0, 1, 0>>

NumAdd(a, b) ==
    LET s1 == a[1] + b[1]
        s2 == a[2] + b[2] + (s1 \div Base)
        s3 == a[3] + b[3] + (s2 \div Base)
        s4 == a[4] + b[4] + (s3 \div Base)
    IN  [sum |-> <<s1 % Base, s2 % Base, s3 % Base, s4 % Base>>, carry |-> s4 \div Base]

NumMul(k, a) ==
    LET s1 == k * a[1]
        s2 == k * a[2] + (s1 \div Base)
        s3 == k * a[3] + (s2 \div Base)
        s4 == k * a[4] + (s3 \div Base)
    IN  [prod |-> <<s1 % Base, s2 % Base, s3 % Base, s4 % Base>>, carry |-> s4 \div Base]

NumLess(a, b) ==
    \E i \in 1..4 : a[i] < b[i] /\ \A j \in (i + 1)..4 : a[j] = b[j]

NumGeq(a, b) == ~NumLess(a, b)

\* `x as u32`: the low 32 bits.
AsU32(n) == <<n[1], n[2], 0, 0>>

FitsU32(n) == n[3] = 0 /\ n[4] = 0

\* u32 + u32 and u32 * k: the wrapped value, and whether it overflowed.
AddU32(a, b) ==
    LET r == NumAdd(a, b).sum IN [val |-> AsU32(r), overflow |-> ~FitsU32(r)]

MulU32(k, a) ==
    LET r == NumMul(k, a).prod IN [val |-> AsU32(r), overflow |-> ~FitsU32(r)]

\* u64 + u64 and u64 * k.
AddU64(a, b) ==
    LET r == NumAdd(a, b) IN [val |-> r.sum, overflow |-> r.carry # 0]

MulU64(k, a) ==
    LET r == NumMul(k, a) IN [val |-> r.prod, overflow |-> r.carry # 0]

(***************************************************************************)
(* The fixed tables of the program                                         *)
(***************************************************************************)
LANGUAGES ==
    { <<"asm", "Assembly">>, <<"bash", "Bash">>, <<"c", "C">>, <<"h", "C">>,
      <<"cpp", "C++">>, <<"c++", "C++">>, <<"cxx", "C++">>, <<"cc", "C++">>,
      <<"hpp", "C++">>, <<"hh", "C++">>, <<"h++", "C++">>, <<"hxx", "C++">>,
      <<"cs", "C#">>, <<"f", "Fortran">>, <<"for", "Fortran">>,
      <<"f90", "Fortran">>, <<"f95", "Fortran">>, <<"gleam", "Gleam">>,
      <<"go", "Go">>, <<"lhs", "Haskell">>, <<"hs", "Haskell">>,
      <<"java", "Java">>, <<"js", "JavaScript">>, <<"mjs", "JavaScript">>,
      <<"cjs", "JavaScript">>, <<"jsx", "JavaScript React">>, <<"kt", "Kotlin">>,
      <<"lua", "Lua">>, <<"m", "MATLAB">>, <<"php", "PHP">>, <<"py", "Python">>,
      <<"r", "R">>, <<"rb", "Ruby">>, <<"rs", "Rust">>, <<"sql", "SQL">>,
      <<"svelte", "Svelte">>, <<"swift", "Swift">>, <<"ts", "TypeScript">>,
      <<"tsx", "TypeScript React">>, <<"v", "V">>, <<"vue", "Vue">>,
      <<"zig", "Zig">> }

\* LANGUAGES.get(extension)
LanguagesGet(extension) ==
    IF \E e \in LANGUAGES : e[1] = extension
    THEN Some((CHOOSE e \in LANGUAGES : e[1] = extension)[2])
    ELSE None

CanonicalNames == { e[2] : e \in LANGUAGES }

ROOT_INDICATORS ==
    << <<"", "git">>, <<"", "gitignore">>, <<"node_modules">>, <<"Cargo", "toml">>,
       <<"build", "zig">>, <<"pyproject", "toml">>, <<"", "luarc", "json">>,
       <<"tsconfig", "json">>, <<"", "prettierrc">>, <<"", "prettierrc", "json">>,
       <<"", "prettierrc", "toml">>, <<"README", "md">>, <<"README">>, <<"LICENSE">>,
       <<"index", "html">> >>

IGNORED_DIRECTORIES ==
    { <<"node_modules">>, <<"target">>, <<"dist">>, <<"build">>, <<"public">>, <<"out">> }

\* str::to_lowercase, on the canonical names and on the queries of FindPool.
LowerTable ==
    { <<"Assembly", "assembly">>, <<"Bash", "bash">>, <<"C", "c">>, <<"C++", "c++">>,
      <<"C#", "c#">>, <<"Fortran", "fortran">>, <<"Gleam", "gleam">>, <<"Go", "go">>,
      <<"Haskell", "haskell">>, <<"Java", "java">>, <<"JavaScript", "javascript">>,
      <<"JavaScript React", "javascript react">>, <<"Kotlin", "kotlin">>,
      <<"Lua", "lua">>, <<"MATLAB", "matlab">>, <<"PHP", "php">>,
      <<"Python", "python">>, <<"R", "r">>, <<"Ruby", "ruby">>, <<"Rust", "rust">>,
      <<"SQL", "sql">>, <<"Svelte", "svelte">>, <<"Swift", "swift">>,
      <<"TypeScript", "typescript">>, <<"TypeScript React", "typescript react">>,
      <<"V", "v">>, <<"Vue", "vue">>, <<"Zig", "zig">>,
      <<"PYTHON", "python">>, <<"Cobol", "cobol">> }

to_lowercase(s) ==
    IF \E e \in LowerTable : e[1] = s
    THEN (CHOOSE e \in LowerTable : e[1] = s)[2]
    ELSE s

(***************************************************************************)
(* File names and paths                                                    *)
(***************************************************************************)
CurDir == <<"", "">>

\* A piece that is not valid UTF-8 (bytes such as 0xFF).
NonUtf8Pieces == { "\\xFF" }

\* OsStr::to_str
to_str(name) ==
    IF \E i \in 1..Len(name) : name[i] \in NonUtf8Pieces THEN None ELSE Some(name)

\* str::starts_with(".")
starts_with_dot(name) == name[1] = "" /\ Len(name) > 1

\* Path::extension of a path whose file name is `name`: the part after the last
\* dot; none without a dot, and none when the only dot is the leading one.
extension(name) ==
    IF Len(name) = 1 \/ (Len(name) = 2 /\ name[1] = "")
    THEN None
    ELSE Some(name[Len(name)])

Abs(comps) == [abs |-> TRUE, comps |-> comps]
Rel(comps) == [abs |-> FALSE, comps |-> comps]

\* Path::join with a relative name
join(path, name) == [path EXCEPT !.comps = Append(@, name)]

\* Path::parent: lexical, none for "/" and for "".
parent(path) ==
    IF path.comps = <<>>
    THEN None
    ELSE Some([path EXCEPT !.comps = SubSeq(@, 1, Len(@) - 1)])

\* Path::file_name
file_name(path) == path.comps[Len(path.comps)]

(***************************************************************************)
(* The file system the run sees (unchanging, without symbolic links)       *)
(***************************************************************************)
\* The process's working directory.
Cwd == << <<"proj">>, <<"src">> >>

\* Directories: absolute components, the names read_dir lists (in the file
\* system's order), and whether the directory can be opened.
DirTable ==
    { [path |-> <<>>, readable |-> TRUE,
       entries |-> << <<"proj">>, <<"plain">>, <<"data">>, <<"huge">>, <<"odd">> >>],
      [path |-> << <<"proj">> >>, readable |-> TRUE,
       entries |-> << <<"Cargo", "toml">>, <<"", "git">>, <<"src">>,
                      <<"node_modules">>, <<"empty">>, <<"locked">> >>],
      [path |-> << <<"proj">>, <<"", "git">> >>, readable |-> TRUE,
       entries |-> << <<"hook", "py">> >>],
      [path |-> << <<"proj">>, <<"src">> >>, readable |-> TRUE,
       entries |-> << <<"a", "py">>, <<"b", "rs">>, <<"", "x", "rs">>,
                      <<"notes", "txt">>, <<"Makefile">>, <<"util">> >>],
      [path |-> << <<"proj">>, <<"src">>, <<"util">> >>, readable |-> TRUE,
       entries |-> << <<"c", "h">>, <<"e", "lua">> >>],
      [path |-> << <<"proj">>, <<"node_modules">> >>, readable |-> TRUE,
       entries |-> << <<"foo", "js">> >>],
      [path |-> << <<"proj">>, <<"empty">> >>, readable |-> TRUE, entries |-> << >>],
      [path |-> << <<"proj">>, <<"locked">> >>, readable |-> FALSE,
       entries |-> << <<"secret", "py">> >>],
      [path |-> << <<"plain">> >>, readable |-> TRUE,
       entries |-> << <<"x", "c">>, <<"sub">>, <<"void">> >>],
      [path |-> << <<"plain">>, <<"sub">> >>, readable |-> TRUE,
       entries |-> << <<"y", "h">> >>],
      [path |-> << <<"plain">>, <<"void">> >>, readable |-> TRUE, entries |-> << >>],
      [path |-> << <<"data">> >>, readable |-> TRUE,
       entries |-> << <<"big", "sql">> >>],
      [path |-> << <<"huge">> >>, readable |-> TRUE,
       entries |-> << <<"h1", "lua">>, <<"h2", "lua">> >>],
      [path |-> << <<"odd">> >>, readable |-> TRUE,
       entries |-> << <<"z", "py">>, <<"\\xFF", "rs">>, <<"w", "go">> >>] }

\* Regular files: absolute components, the length metadata reports, the number
\* of items BufRead::lines yields on the content, whether the file can be read.
FileTable ==
    { [path |-> << <<"proj">>, <<"Cargo", "toml">> >>,
       len |-> Num(120), lines |-> Num(8), readable |-> TRUE],
      [path |-> << <<"proj">>, <<"", "git">>, <<"hook", "py">> >>,
       len |-> Num(30), lines |-> Num(3), readable |-> TRUE],
      [path |-> << <<"proj">>, <<"src">>, <<"a", "py">> >>,
       len |-> Num(500), lines |-> Num(10), readable |-> TRUE],
      [path |-> << <<"proj">>, <<"src">>, <<"b", "rs">> >>,
       len |-> Num(250), lines |-> Num(5), readable |-> TRUE],
      [path |-> << <<"proj">>, <<"src">>, <<"", "x", "rs">> >>,
       len |-> Num(12), lines |-> Num(2), readable |-> TRUE],
      [path |-> << <<"proj">>, <<"src">>, <<"notes", "txt">> >>,
       len |-> Num(9), lines |-> Num(1), readable |-> TRUE],
      [path |-> << <<"proj">>, <<"src">>, <<"Makefile">> >>,
       len |-> Num(80), lines |-> Num(6), readable |-> TRUE],
      [path |-> << <<"proj">>, <<"src">>, <<"util">>, <<"c", "h">> >>,
       len |-> Num(2), lines |-> Num(1), readable |-> TRUE],
      [path |-> << <<"proj">>, <<"src">>, <<"util">>, <<"e", "lua">> >>,
       len |-> Num(0), lines |-> Num(0), readable |-> TRUE],
      [path |-> << <<"proj">>, <<"node_modules">>, <<"foo", "js">> >>,
       len |-> Num(40), lines |-> Num(4), readable |-> TRUE],
      [path |-> << <<"proj">>, <<"locked">>, <<"secret", "py">> >>,
       len |-> Num(5), lines |-> Num(1), readable |-> TRUE],
      [path |-> << <<"plain">>, <<"x", "c">> >>,
       len |-> Num(0), lines |-> Num(0), readable |-> TRUE],
      [path |-> << <<"plain">>, <<"sub">>, <<"y", "h">> >>,
       len |-> Num(0), lines |-> Num(0), readable |-> TRUE],
      [path |-> << <<"data">>, <<"big", "sql">> >>,
       len |-> NumTwoTo32, lines |-> NumTwoTo32, readable |-> TRUE],
      [path |-> << <<"huge">>, <<"h1", "lua">> >>,
       len |-> NumTwoTo31, lines |-> NumTwoTo31, readable |-> TRUE],
      [path |-> << <<"huge">>, <<"h2", "lua">> >>,
       len |-> NumTwoTo31, lines |-> NumTwoTo31, readable |-> TRUE],
      [path |-> << <<"odd">>, <<"z", "py">> >>,
       len |-> Num(7), lines |-> Num(1), readable |-> TRUE],
      [path |-> << <<"odd">>, <<"\\xFF", "rs">> >>,
       len |-> Num(4), lines |-> Num(1), readable |-> TRUE],
      [path |-> << <<"odd">>, <<"w", "go">> >>,
       len |-> Num(6), lines |-> Num(2), readable |-> FALSE] }

DirOf(comps) == CHOOSE d \in DirTable : d.path = comps
FileOf(comps) == CHOOSE f \in FileTable : f.path = comps

\* The table is a tree: every listed name is a directory or a file, every node
\* but "/" is listed by its parent, a file has a line only if it has a byte,
\* and the working directory exists.
FsWellFormed ==
    /\ \A d \in DirTable : \A i \in 1..Len(d.entries) :
          LET p == Append(d.path, d.entries[i])
          IN  /\ (\E x \in DirTable : x.path = p) # (\E x \in FileTable : x.path = p)
              /\ \A j \in 1..Len(d.entries) : d.entries[j] = d.entries[i] => j = i
    /\ \A x \in DirTable \cup FileTable :
          x.path # <<>> =>
             \E d \in DirTable :
                /\ d.path = SubSeq(x.path, 1, Len(x.path) - 1)
                /\ \E i \in 1..Len(d.entries) : d.entries[i] = x.path[Len(x.path)]
    /\ \A f \in FileTable :
          /\ (f.len = NumZero) => (f.lines = NumZero)
          /\ NumGeq(f.len, f.lines)
    /\ \E d \in DirTable : d.path = Cwd

RECURSIVE DropCurDir(_)
DropCurDir(comps) ==
    IF comps = <<>> THEN <<>>
    ELSE IF comps[1] = CurDir THEN DropCurDir(Tail(comps))
    ELSE <<comps[1]>> \o DropCurDir(Tail(comps))

\* The absolute components the system resolves a path to (std::fs::canonicalize
\* on a tree without links): relative paths start at the working directory.
Resolve(path) == (IF path.abs THEN <<>> ELSE Cwd) \o DropCurDir(path.comps)

\* Every directory on the way to the node can be searched.
Reachable(comps) ==
    \A n \in 1..(Len(comps) - 1) : DirOf(SubSeq(comps, 1, n)).readable

\* Whether a system call finds the node: "" names nothing.
Found(path) ==
    /\ path # Rel(<<>>)
    /\ \E x \in DirTable \cup FileTable : x.path = Resolve(path)
    /\ Reachable(Resolve(path))

\* Path::exists, Path::is_dir, Path::is_file
exists(path) == Found(path)
is_dir(path) == Found(path) /\ \E d \in DirTable : d.path = Resolve(path)
is_file(path) == Found(path) /\ \E f \in FileTable : f.path = Resolve(path)

Reverse(s) == [i \in 1..Len(s) |-> s[Len(s) + 1 - i]]

\* std::fs::read_dir(path) and its entries' paths, in the order the file
\* system lists them; none when the directory cannot be opened.
read_dir(path, order) ==
    IF is_dir(path) /\ DirOf(Resolve(path)).readable
    THEN LET names == DirOf(Resolve(path)).entries
             listed == IF order = "forward" THEN names ELSE Reverse(names)
         IN  Some([i \in 1..Len(listed) |-> join(path, listed[i])])
    ELSE None

(***************************************************************************)
(* get_root_dir                                                            *)
(***************************************************************************)
HasIndicator(directory_path) ==
    \E i \in 1..Len(ROOT_INDICATORS) : exists(join(directory_path, ROOT_INDICATORS[i]))

RECURSIVE get_root_dir(_)
get_root_dir(directory_path) ==
    IF HasIndicator(directory_path)
    THEN Some(directory_path)
    ELSE IF parent(directory_path) = None
         THEN None
         ELSE get_root_dir(parent(directory_path)[1])

(***************************************************************************)
(* LanguageList                                                            *)
(***************************************************************************)
\* LanguageInfo::new
LanguageInfoNew(name) == [name |-> name, files |-> <<>>, lines |-> NumZero, bytes |-> NumZero]

\* The index of the first record of that name, 0 when there is none.
IndexOf(list, name) ==
    IF \E i \in 1..Len(list) : list[i].name = name
    THEN CHOOSE i \in 1..Len(list) :
            list[i].name = name /\ \A j \in 1..(i - 1) : list[j].name # name
    ELSE 0

\* LanguageList::add_file.  `checks` tells whether the build checks integer
\* overflow (a debug build panics where a release build wraps).  The result
\* is the list and the panic message, if the call panicked.
add_file(list, path, args, checks) ==
    LET ext == IF extension(file_name(path)) = None
               THEN None
               ELSE to_str(<<extension(file_name(path))[1]>>)
        language == IF ext = None THEN None ELSE LanguagesGet(ext[1][1])
    IN  IF language = None \/ language[1] \in args.exclude
        THEN [languages |-> list, panic |-> None]
        ELSE LET found == IndexOf(list, language[1])
                 pushed == IF found = 0 THEN Append(list, LanguageInfoNew(language[1])) ELSE list
                 i == IF found = 0 THEN Len(pushed) ELSE found
                 file == FileOf(Resolve(path))
                 lines == AddU32(pushed[i].lines, AsU32(file.lines))
                 bytes == AddU64(pushed[i].bytes, file.len)
             IN  IF ~file.readable
                 THEN [languages |-> pushed, panic |-> Some("called Result::unwrap() on an Err value")]
                 ELSE IF checks /\ (lines.overflow \/ bytes.overflow)
                 THEN [languages |-> pushed, panic |-> Some("attempt to add with overflow")]
                 ELSE [languages |->
                          [pushed EXCEPT ![i] = [name |-> @.name,
                                                 files |-> Append(@.files, Resolve(path)),
                                                 lines |-> lines.val,
                                                 bytes |-> bytes.val]],
                       panic |-> None]

\* LanguageList::sort: a stable sort by LanguageInfo's Ord, descending bytes.
RECURSIVE InsertSorted(_, _)
InsertSorted(sorted, info) ==
    IF sorted = <<>> THEN <<info>>
    ELSE IF NumLess(sorted[Len(sorted)].bytes, info.bytes)
         THEN Append(InsertSorted(SubSeq(sorted, 1, Len(sorted) - 1), info), sorted[Len(sorted)])
         ELSE Append(sorted, info)

RECURSIVE sort(_)
sort(list) ==
    IF list = <<>> THEN <<>>
    ELSE InsertSorted(sort(SubSeq(list, 1, Len(list) - 1)), list[Len(list)])

\* A variant of find that compares the query as given, without lowering it:
\* C9 fails of it, so C9 rests on find's case folding.
find_case_sensitive(list, language_name) ==
    LET hit == { i \in 1..Len(list) : to_lowercase(list[i].name) = language_name }
    IN  IF hit = {} THEN <<>>
        ELSE LET first == CHOOSE i \in hit : \A j \in hit : i <= j
             IN  [k \in 1..Len(list[first].files) |->
                     [kind |-> "path", path |-> list[first].files[k]]]

\* LanguageList::find: the lines it prints.
find(list, language_name) ==
    LET wanted == to_lowercase(language_name)
        hit == { i \in 1..Len(list) : to_lowercase(list[i].name) = wanted }
    IN  IF hit = {} THEN <<>>
        ELSE LET first == CHOOSE i \in hit : \A j \in hit : i <= j
             IN  [k \in 1..Len(list[first].files) |->
                     [kind |-> "path", path |-> list[first].files[k]]]

\* `100.0 * (bytes as f64) / (total_bytes as f64) >= 1.`: x / 0.0 is infinite
\* for x > 0 and NaN (which is not >= 1) for x = 0; below 2^53 the conversions
\* and the product are exact and the rounded quotient is >= 1 exactly when
\* 100 * bytes >= total_bytes.
byte_percent_at_least_one(bytes, total_bytes) ==
    IF total_bytes = NumZero
    THEN bytes # NumZero
    ELSE NumMul(100, bytes).carry # 0 \/ NumGeq(NumMul(100, bytes).prod, total_bytes)

\* LanguageList::display, its first loop: total_files (usize), total_lines
\* (u32), total_bytes (u64), and the panic message if an addition overflowed
\* in a build that checks.
RECURSIVE display_totals(_, _)
display_totals(list, checks) ==
    IF list = <<>>
    THEN [files |-> 0, lines |-> NumZero, bytes |-> NumZero, panic |-> None]
    ELSE LET before == display_totals(SubSeq(list, 1, Len(list) - 1), checks)
             info == list[Len(list)]
             lines == AddU32(before.lines, info.lines)
             bytes == AddU64(before.bytes, info.bytes)
         IN  IF before.panic # None THEN before
             ELSE IF checks /\ (lines.overflow \/ bytes.overflow)
             THEN [before EXCEPT !.panic = Some("attempt to add with overflow")]
             ELSE [files |-> before.files + Len(info.files), lines |-> lines.val,
                   bytes |-> bytes.val, panic |-> None]

\* LanguageList::display, its second loop: the lines printed (the counts each
\* shows; the percentages shown are left out, the panics of computing them are
\* not), the Other accumulators, and the panic message if the loop panicked.
\* println!'s arguments are evaluated before anything of the line is printed.
RECURSIVE display_rows(_, _, _)
display_rows(list, totals, checks) ==
    IF list = <<>>
    THEN [printed |-> <<>>, other_bytes |-> NumZero, other_files |-> 0,
          other_lines |-> NumZero, panic |-> None]
    ELSE LET before == display_rows(SubSeq(list, 1, Len(list) - 1), totals, checks)
             info == list[Len(list)]
             other_lines == AddU32(before.other_lines, info.lines)
             other_bytes == AddU64(before.other_bytes, info.bytes)
         IN  IF before.panic # None THEN before
             ELSE IF byte_percent_at_least_one(info.bytes, totals.bytes)
             THEN IF checks /\ MulU64(100, info.bytes).overflow
                  THEN [before EXCEPT !.panic = Some("attempt to multiply with overflow")]
                  ELSE IF totals.bytes = NumZero
                  THEN [before EXCEPT !.panic = Some("attempt to divide by zero")]
                  ELSE IF checks /\ MulU32(100, info.lines).overflow
                  THEN [before EXCEPT !.panic = Some("attempt to multiply with overflow")]
                  ELSE IF totals.lines = NumZero
                  THEN [before EXCEPT !.panic = Some("attempt to divide by zero")]
                  ELSE IF totals.files = 0
                  THEN [before EXCEPT !.panic = Some("attempt to divide by zero")]
                  ELSE [before EXCEPT !.printed =
                           Append(@, [kind |-> "language", name |-> info.name,
                                      bytes |-> info.bytes, lines |-> info.lines,
                                      files |-> Len(info.files)])]
             ELSE IF checks /\ (other_lines.overflow \/ other_bytes.overflow)
             THEN [before EXCEPT !.panic = Some("attempt to add with overflow")]
             ELSE [before EXCEPT !.other_bytes = other_bytes.val,
                                 !.other_files = @ + Len(info.files),
                                 !.other_lines = other_lines.val]

\* LanguageList::display: what it prints, the values of its locals, and the
\* panic message if it panicked.  The Other line's percentages are floating
\* point and cannot panic.
display(list, checks) ==
    LET totals == display_totals(list, checks)
        rows == display_rows(list, totals, checks)
        locals == [total_files |-> totals.files, total_lines |-> totals.lines,
                   total_bytes |-> totals.bytes, other_files |-> rows.other_files,
                   other_lines |-> rows.other_lines, other_bytes |-> rows.other_bytes]
    IN  IF totals.panic # None
        THEN [printed |-> <<>>, locals |-> None, panic |-> totals.panic]
        ELSE IF rows.panic # None
        THEN [printed |-> rows.printed, locals |-> Some(locals), panic |-> rows.panic]
        ELSE [printed |->
                 IF rows.other_bytes # NumZero
                 THEN Append(rows.printed,
                             [kind |-> "other", name |-> "Other", bytes |-> rows.other_bytes,
                              lines |-> rows.other_lines, files |-> rows.other_files])
                 ELSE rows.printed,
              locals |-> Some(locals), panic |-> None]

(***************************************************************************)
(* The command lines of the model                                          *)
(***************************************************************************)
MaxInclude == 1
MaxExclude == 1

AtMost(pool, n) == { s \in SUBSET pool : Cardinality(s) <= n }

IncludePool == { <<"", "x", "rs">>, <<"", "git">>, <<"node_modules">> }
ExcludePool == { "Python", "python" }
FindPool == { None, Some("PYTHON"), Some("Cobol") }
OutputFormat == { "HumanReadable", "Json", "Yaml" }

\* directory_path: absent, absolute, or relative to the working directory.
DirectoryPool ==
    { None,
      Some(Abs(<< <<"proj">>, <<"src">>, <<"util">> >>)),
      Some(Abs(<< <<"proj">>, <<"empty">> >>)),
      Some(Abs(<< <<"proj">>, <<"nope">> >>)),
      Some(Abs(<< <<"plain">> >>)),
      Some(Abs(<< <<"plain">>, <<"void">> >>)),
      Some(Abs(<< <<"data">> >>)),
      Some(Abs(<< <<"huge">> >>)),
      Some(Abs(<< <<"odd">> >>)),
      Some(Rel(<< CurDir >>)) }

Arguments ==
    [directory_path : DirectoryPool, include_dotfiles : BOOLEAN, output : OutputFormat,
     find : FindPool, find_root : BOOLEAN, exclude : AtMost(ExcludePool, MaxExclude),
     include : AtMost(IncludePool, MaxInclude), here : BOOLEAN]

(***************************************************************************)
(* main and analyze_directory                                              *)
(***************************************************************************)
Init ==
    /\ FsWellFormed
    /\ pc = "main"
    /\ arguments \in Arguments
    /\ fsOrder \in { "forward", "reverse" }
    /\ overflow_checks \in BOOLEAN
    /\ located = None
    /\ root = None
    /\ stack = <<>>
    /\ languages = <<>>
    /\ recorded = <<>>
    /\ report = None
    /\ stdout = <<>>
    /\ panic = None

\* The directory main starts from: the argument as given, or the canonical
\* working directory.
Source(args) ==
    IF args.directory_path # None THEN args.directory_path[1] ELSE Abs(Cwd)

\* main's root.
RootOf(args) ==
    IF args.here
    THEN Source(args)
    ELSE IF get_root_dir(Source(args)) # None
         THEN get_root_dir(Source(args))[1]
         ELSE Source(args)

\* main up to the call of analyze_directory, and the whole find-root command.
Main ==
    /\ pc = "main"
    /\ root' = Some(RootOf(arguments))
    /\ located' = IF arguments.here THEN None ELSE Some(get_root_dir(Source(arguments)))
    /\ IF arguments.find_root
       THEN /\ stdout' = Append(stdout, [kind |-> "root", path |-> RootOf(arguments)])
            /\ pc' = "done"
       ELSE /\ stdout' = stdout
            /\ pc' = "analyze_directory"
    /\ UNCHANGED <<arguments, fsOrder, overflow_checks, stack, languages, recorded, report, panic>>

\* The pending iterators of the recursion, innermost last: a call whose
\* iterator is exhausted returns.
RECURSIVE Settle(_)
Settle(st) ==
    IF st = <<>> THEN <<>>
    ELSE IF st[Len(st)] = <<>> THEN Settle(SubSeq(st, 1, Len(st) - 1))
    ELSE st

Continue(st) ==
    /\ stack' = Settle(st)
    /\ pc' = IF Settle(st) = <<>> THEN "sort" ELSE "entries"

\* A variant of the call that unwraps read_dir's result instead of returning
\* early: C4 fails of it, so C4 rests on the early return.
AnalyzeDirectory_unwrap ==
    /\ pc = "analyze_directory"
    /\ IF read_dir(root[1], fsOrder) = None
       THEN /\ pc' = "panicked"
            /\ panic' = Some("called Result::unwrap() on an Err value")
            /\ stack' = stack
       ELSE /\ Continue(<<read_dir(root[1], fsOrder)[1]>>)
            /\ panic' = panic
    /\ UNCHANGED <<arguments, fsOrder, overflow_checks, located, root, languages, recorded, report, stdout>>

\* main's call analyze_directory(&root, ...): read_dir, or the early return.
AnalyzeDirectory ==
    /\ pc = "analyze_directory"
    /\ Continue(IF read_dir(root[1], fsOrder) = None
                THEN <<>>
                ELSE <<read_dir(root[1], fsOrder)[1]>>)
    /\ UNCHANGED <<arguments, fsOrder, overflow_checks, located, root, languages, recorded, report, stdout,
                   panic>>

\* History: the (language, path) a call of add_file counted, if it counted one:
\* the record whose files grew, and the path appended to it.
Counted(before, added) ==
    IF added.panic # None THEN <<>>
    ELSE LET grown == { i \in 1..Len(added.languages) :
                          i > Len(before) \/ added.languages[i].files # before[i].files }
         IN  IF grown = {} THEN <<>>
             ELSE LET i == CHOOSE i \in grown : TRUE
                      info == added.languages[i]
                  IN  << [language |-> info.name, path |-> info.files[Len(info.files)]] >>

\* One iteration of analyze_directory's loop, in the innermost call; a
\* directory entry starts the recursive call (its read_dir).
AnalyzeEntry ==
    /\ pc = "entries"
    /\ LET top == stack[Len(stack)]
           path == Head(top)
           rest == [stack EXCEPT ![Len(stack)] = Tail(top)]
           filename == to_str(file_name(path))
       IN  IF filename = None
           THEN /\ panic' = Some("called Option::unwrap() on a None value")
                /\ pc' = "panicked"
                /\ UNCHANGED <<stack, languages, recorded>>
           ELSE IF ~arguments.include_dotfiles /\ starts_with_dot(filename[1])
           THEN Continue(rest) /\ UNCHANGED <<languages, recorded, panic>>
           ELSE IF is_dir(path)
           THEN IF filename[1] \in IGNORED_DIRECTORIES /\ filename[1] \notin arguments.include
                THEN Continue(rest) /\ UNCHANGED <<languages, recorded, panic>>
                ELSE /\ Continue(IF read_dir(path, fsOrder) = None
                                 THEN rest
                                 ELSE Append(rest, read_dir(path, fsOrder)[1]))
                     /\ UNCHANGED <<languages, recorded, panic>>
           ELSE IF is_file(path)
           THEN LET added == add_file(languages, path, arguments, overflow_checks)
                IN  /\ languages' = added.languages
                    /\ recorded' = recorded \o Counted(languages, added)
                    /\ panic' = added.panic
                    /\ IF added.panic # None
                       THEN pc' = "panicked" /\ stack' = stack
                       ELSE Continue(rest)
           ELSE Continue(rest) /\ UNCHANGED <<languages, recorded, panic>>
    /\ UNCHANGED <<arguments, fsOrder, overflow_checks, located, root, report, stdout>>

\* languages.sort()
Sort ==
    /\ pc = "sort"
    /\ languages' = sort(languages)
    /\ pc' = "report"
    /\ UNCHANGED <<arguments, fsOrder, overflow_checks, located, root, stack, recorded, report, stdout,
                   panic>>

\* The find command.
Find ==
    /\ pc = "report"
    /\ arguments.find # None
    /\ stdout' = stdout \o find(languages, arguments.find[1])
    /\ pc' = "done"
    /\ UNCHANGED <<arguments, fsOrder, overflow_checks, located, root, stack, languages, recorded, report,
                   panic>>

\* No subcommand, human-readable output.
Display ==
    /\ pc = "report"
    /\ arguments.find = None
    /\ arguments.output = "HumanReadable"
    /\ LET shown == display(languages, overflow_checks)
       IN  /\ stdout' = stdout \o shown.printed
           /\ report' = shown.locals
           /\ panic' = shown.panic
           /\ pc' = IF shown.panic # None THEN "panicked" ELSE "done"
    /\ UNCHANGED <<arguments, fsOrder, overflow_checks, located, root, stack, languages, recorded>>

\* No subcommand, JSON or YAML: the list itself.
Serialize ==
    /\ pc = "report"
    /\ arguments.find = None
    /\ arguments.output \in { "Json", "Yaml" }
    /\ stdout' = Append(stdout, [kind |-> arguments.output, languages |-> languages])
    /\ pc' = "done"
    /\ UNCHANGED <<arguments, fsOrder, overflow_checks, located, root, stack, languages, recorded, report,
                   panic>>

Next ==
    \/ Main
    \/ AnalyzeDirectory
    \/ AnalyzeEntry
    \/ Sort
    \/ Find
    \/ Display
    \/ Serialize

Spec == Init /\ [][Next]_vars

(***************************************************************************)
(* What the claims speak of                                                *)
(***************************************************************************)
\* The traversal has returned to main (a panic of display comes later still).
TraversalComplete == pc \in { "sort", "report", "done" } /\ ~arguments.find_root

ScanRoot == Resolve(root[1])

IsUnder(comps, dir) == Len(comps) > Len(dir) /\ SubSeq(comps, 1, Len(dir)) = dir

\* The filter of analyze_directory on one name.
KeptByWalker(name, isDirectory) ==
    /\ arguments.include_dotfiles \/ ~starts_with_dot(name)
    /\ isDirectory => ~(name \in IGNORED_DIRECTORIES /\ name \notin arguments.include)

\* The filter as the specification and --include's documentation state it: the
\* include list exempts a dot-named entry too.
KeptByIncludeRule(name, isDirectory) ==
    /\ starts_with_dot(name) => (arguments.include_dotfiles \/ name \in arguments.include)
    /\ isDirectory => ~(name \in IGNORED_DIRECTORIES /\ name \notin arguments.include)

\* File f lies below the scanned root, every name on the way from the root to
\* it passes the filter, and every directory on the way can be read.
ReachedUnder(f, Kept(_, _)) ==
    /\ read_dir(root[1], fsOrder) # None
    /\ IsUnder(f.path, ScanRoot)
    /\ \A n \in (Len(ScanRoot) + 1)..Len(f.path) :
          /\ Kept(f.path[n], n < Len(f.path))
          /\ n < Len(f.path) => DirOf(SubSeq(f.path, 1, n)).readable

\* The canonical language of a file's extension, if it has one.
Classified(f) ==
    IF extension(f.path[Len(f.path)]) = None
    THEN None
    ELSE LanguagesGet(extension(f.path[Len(f.path)])[1])

IsCounted(f) ==
    \E i \in 1..Len(languages) : \E k \in 1..Len(languages[i].files) :
       languages[i].files[k] = f.path

RECURSIVE SumLen(_)
SumLen(files) ==
    IF files = {} THEN NumZero
    ELSE LET f == CHOOSE f \in files : TRUE
         IN  NumAdd(f.len, SumLen(files \ {f})).sum

RECURSIVE SumLines(_)
SumLines(files) ==
    IF files = {} THEN NumZero
    ELSE LET f == CHOOSE f \in files : TRUE
         IN  NumAdd(f.lines, SumLines(files \ {f})).sum

\* The files the walker owes to language L.
FilesOf(L) ==
    { f \in FileTable :
         /\ ReachedUnder(f, KeptByWalker)
         /\ Classified(f) = Some(L)
         /\ L \notin arguments.exclude }

\* The directory main was asked to scan does not exist, or is empty.
TargetMissingOrEmpty ==
    \/ ~exists(Source(arguments))
    \/ /\ is_dir(Source(arguments))
       /\ DirOf(Resolve(Source(arguments))).entries = <<>>

(***************************************************************************)
(* C1: a dot-named entry is skipped unless include_dotfiles is set or its  *)
(* exact name is in the include list: after the traversal, the files       *)
(* counted are exactly the classified, non-excluded files reached under    *)
(* that rule (so a dot-named file whose name is in the include list is     *)
(* counted without include_dotfiles).                                      *)
(***************************************************************************)
C1_DotfileCountedWhenIncluded ==
    TraversalComplete =>
       \A f \in FileTable :
          IsCounted(f) <=>
             /\ ReachedUnder(f, KeptByIncludeRule)
             /\ Classified(f) # None
             /\ Classified(f)[1] \notin arguments.exclude

(***************************************************************************)
(* C2: for every name in the exclude list, compared case-insensitively     *)
(* with the canonical names, the list never holds a record of that         *)
(* language.                                                               *)
(***************************************************************************)
C2_ExcludedIgnoringCase ==
    \A e \in arguments.exclude : \A i \in 1..Len(languages) :
       to_lowercase(languages[i].name) # to_lowercase(e)

(***************************************************************************)
(* C3: in find-root mode analyze_directory is never invoked, the root      *)
(* that get_root_dir found is what is printed, and nothing is printed      *)
(* when get_root_dir found none.                                           *)
(***************************************************************************)
C3_FindRootPrintsRootOrNothing ==
    arguments.find_root =>
       /\ pc \in { "main", "done" }
       /\ stack = <<>> /\ languages = <<>>
       /\ (pc = "done" /\ located # None) =>
             IF located[1] = None
             THEN stdout = <<>>
             ELSE stdout = << [kind |-> "root", path |-> located[1][1]] >>

(***************************************************************************)
(* C4 as claimed: a scan whose target directory does not exist, or is      *)
(* empty, keeps the list empty and does not abort, whatever the            *)
(* configuration.                                                          *)
(***************************************************************************)
C4_EmptyTargetEmptyList ==
    (TargetMissingOrEmpty /\ ~arguments.find_root) =>
       languages = <<>> /\ pc # "panicked"

(***************************************************************************)
(* C4 as amended: the same, when the target itself is the directory        *)
(* scanned: here is set, or get_root_dir found no root.  The list stays    *)
(* empty, nothing is counted, nothing panics, the totals display computes  *)
(* are zero and human-readable output prints nothing.                      *)
(***************************************************************************)
C4_EmptyTargetEmptyListWhenScanned ==
    (TargetMissingOrEmpty /\ (arguments.here \/ located = Some(None))) =>
       /\ languages = <<>> /\ recorded = <<>>
       /\ pc # "panicked" /\ panic = None
       /\ report # None =>
             /\ report[1].total_files = 0
             /\ report[1].total_lines = NumZero
             /\ report[1].total_bytes = NumZero
             /\ stdout = <<>>

C4_Witness ==
    /\ pc = "done"
    /\ report # None
    /\ TargetMissingOrEmpty
    /\ ~arguments.here /\ located = Some(None)

(***************************************************************************)
(* C5: get_root_dir(start) returns the nearest directory, among the one    *)
(* start names and its parents up to the file system's root, that holds    *)
(* a root indicator, and none exactly when no directory of that chain      *)
(* holds one.                                                              *)
(***************************************************************************)
HoldsIndicator(dir) ==
    \E i \in 1..Len(ROOT_INDICATORS) :
       \E x \in DirTable \cup FileTable : x.path = Append(dir, ROOT_INDICATORS[i])

\* The directory a path names and its ancestors, by their depth.
ChainOf(start) == { SubSeq(Resolve(start), 1, n) : n \in 0..Len(Resolve(start)) }

C5_NearestRootOnChain ==
    located # None =>
       LET chain == ChainOf(Source(arguments))
           marked == { d \in chain : HoldsIndicator(d) }
       IN  IF marked = {}
           THEN located[1] = None
           ELSE /\ located[1] # None
                /\ Resolve(located[1][1]) \in marked
                /\ \A d \in marked : Len(d) <= Len(Resolve(located[1][1]))

\* What holds of get_root_dir in place of C5: the same, of an absolute start.
RootLocatorOnAbsolutePaths ==
    (located # None /\ Source(arguments).abs) => C5_NearestRootOnChain

(***************************************************************************)
(* C6: after a traversal that completes, the list holds at most one        *)
(* record per canonical name, and for each language the record's files     *)
(* are exactly the classified, kept, non-excluded files under the scan     *)
(* root, each once, its bytes the sum of their sizes and its lines the     *)
(* sum of their line counts; other files are in no record.                 *)
(***************************************************************************)
C6_RecordsAreExactSums ==
    TraversalComplete =>
       /\ \A i, j \in 1..Len(languages) : languages[i].name = languages[j].name => i = j
       /\ \A i \in 1..Len(languages) : languages[i].name \in CanonicalNames
       /\ \A L \in CanonicalNames :
             IF FilesOf(L) = {}
             THEN \A i \in 1..Len(languages) : languages[i].name # L
             ELSE \E i \in 1..Len(languages) :
                     /\ languages[i].name = L
                     /\ Len(languages[i].files) = Cardinality(FilesOf(L))
                     /\ { languages[i].files[k] : k \in 1..Len(languages[i].files) }
                           = { f.path : f \in FilesOf(L) }
                     /\ languages[i].bytes = SumLen(FilesOf(L))
                     /\ languages[i].lines = SumLines(FilesOf(L))

\* What holds of the traversal in place of C6: the same, with each record's
\* lines the sum of the line counts reduced modulo 2^32.
TraversalCountsEachFileOnce ==
    TraversalComplete =>
       /\ \A i, j \in 1..Len(languages) : languages[i].name = languages[j].name => i = j
       /\ \A L \in CanonicalNames :
             IF FilesOf(L) = {}
             THEN \A i \in 1..Len(languages) : languages[i].name # L
             ELSE \E i \in 1..Len(languages) :
                     /\ languages[i].name = L
                     /\ Len(languages[i].files) = Cardinality(FilesOf(L))
                     /\ { languages[i].files[k] : k \in 1..Len(languages[i].files) }
                           = { f.path : f \in FilesOf(L) }
                     /\ languages[i].bytes = SumLen(FilesOf(L))
                     /\ languages[i].lines = AsU32(SumLines(FilesOf(L)))

(***************************************************************************)
(* C7: in human-readable display every record is shown on a line of its    *)
(* own or added to Other, the Other line is printed whenever Other is      *)
(* nonzero in files, lines or bytes, and the files, the lines and the      *)
(* bytes shown add up to the grand totals.                                 *)
(***************************************************************************)
RECURSIVE ShownFiles(_)
ShownFiles(out) ==
    IF out = <<>> THEN 0 ELSE out[1].files + ShownFiles(Tail(out))

RECURSIVE ShownLines(_)
ShownLines(out) ==
    IF out = <<>> THEN NumZero ELSE NumAdd(out[1].lines, ShownLines(Tail(out))).sum

RECURSIVE ShownBytes(_)
ShownBytes(out) ==
    IF out = <<>> THEN NumZero ELSE NumAdd(out[1].bytes, ShownBytes(Tail(out))).sum

C7_ShownCountsAddUpToTotals ==
    (pc = "done" /\ report # None) =>
       /\ (report[1].other_files # 0 \/ report[1].other_lines # NumZero
              \/ report[1].other_bytes # NumZero)
             => \E k \in 1..Len(stdout) : stdout[k].kind = "other"
       /\ ShownFiles(stdout) = report[1].total_files
       /\ ShownLines(stdout) = report[1].total_lines
       /\ ShownBytes(stdout) = report[1].total_bytes

(***************************************************************************)
(* C8: a recoverable condition met during the traversal, such as an entry  *)
(* whose name is not valid UTF-8, skips that entry only: the process does  *)
(* not abort on it.                                                        *)
(***************************************************************************)
C8_NonUtf8NameIsSkipped ==
    (pc = "panicked" /\ stack # <<>>) =>
       to_str(file_name(Head(stack[Len(stack)]))) # None

(***************************************************************************)
(* C9: find prints exactly the paths add_file recorded for the language    *)
(* whose canonical name equals the query ignoring case, in the order they  *)
(* were recorded, and nothing when no record matches.                      *)
(***************************************************************************)
RecordedFor(query) ==
    LET matches(r) == to_lowercase(r.language) = to_lowercase(query)
        hits == SelectSeq(recorded, matches)
    IN  [k \in 1..Len(hits) |-> [kind |-> "path", path |-> hits[k].path]]

C9_FindPrintsRecordedPaths ==
    (pc = "done" /\ ~arguments.find_root /\ arguments.find # None) =>
       stdout = RecordedFor(arguments.find[1])

\* Two Python files printed on a query in another case, after a sort that
\* moved the Python record to the front of the list.
C9_Witness ==
    /\ pc = "done" /\ ~arguments.find_root
    /\ arguments.find = Some("PYTHON")
    /\ Len(stdout) = 2
    /\ recorded[1].language # "Python"
    /\ languages[1].name = "Python"

(***************************************************************************)
(* C10: display never divides by zero: whenever a record takes the         *)
(* branch that prints it, total_bytes, total_lines and total_files are     *)
(* all nonzero.                                                            *)
(***************************************************************************)
C10_DisplayNeverDividesByZero ==
    /\ panic # Some("attempt to divide by zero")
    /\ report # None =>
          \A i \in 1..Len(languages) :
             byte_percent_at_least_one(languages[i].bytes, report[1].total_bytes) =>
                /\ report[1].total_bytes # NumZero
                /\ report[1].total_lines # NumZero
                /\ report[1].total_files # 0

====
